---- MODULE Spec2Model ----
(***************************************************************************)
(* Model of CLI-MinidiscStream (src/src/main.rs): range-selector parsing,  *)
(* track source resolution and selection, and the SOX preprocessing cache. *)
(***************************************************************************)
EXTENDS Integers, Sequences, FiniteSets, TLC

VARIABLES
    pc,             \* position of the program
    track_select,   \* InputArgs.track_select, a sequence of characters
    track_range,    \* Range<Option<isize>> returned by parse_track_ranges
    album_path,     \* InputArgs.input_path and what it names on the file system
    dir_entries,    \* fs::read_dir enumeration of the input directory
    playlist_lines, \* lines of the input playlist file
    song_paths,     \* Vec<PathBuf> returned by get_audio_paths
    diags,          \* diagnostics printed by parse_playlist
    stereo_pan,     \* InputArgs.stereo_pan, in thousandths
    cache_dirs,     \* cache directories that exist under the temp directory
    cache_files,    \* files that exist in the cache directories
    call,           \* number of the preproccess_audio call that is running
    idx,            \* tracks the loop of preproccess_audio has handled
    output_files,   \* output_files of the running call
    sox_runs,       \* SOX invocations of the running call
    first_call,     \* what the first call returned and how often it ran SOX
    env_ok,         \* no cache file was removed and SOX wrote every output
    fatal,          \* which call panicked, "" while the program runs
    io,             \* the kinds of I/O the program has performed
    cache_start,    \* the cache files that existed when the program started
    cache_log,      \* cache hits and SOX invocations, in order
    pause,          \* InputArgs.pause, in seconds
    delay,          \* InputArgs.delay, in seconds
    devices,        \* number of output devices get_devices enumerated
    output_device,  \* the device get_devices returned
    stdin_reads,    \* lines get_devices has read from stdin
    choice_input,   \* the line get_devices read last
    play_idx,       \* tracks the playback loop has taken from the list
    started,        \* calls of pipe_audio: track and sink, in order
    played,         \* tracks whose playback ran to the end, in order
    pauses,         \* for every inter-track sleep, the tracks played before it
    cleanup         \* outcome of fs::remove_dir_all of the temp directory

vars == <<pc, track_select, track_range, album_path, dir_entries,
          playlist_lines, song_paths, diags, stereo_pan, cache_dirs,
          cache_files, call, idx, output_files, sox_runs, first_call, env_ok,
          fatal, io, cache_start, cache_log, pause, delay, devices,
          output_device, stdin_reads, choice_input, play_idx, started,
          played, pauses, cleanup>>

selectVars == <<album_path, dir_entries, playlist_lines, song_paths, diags>>
cacheVars == <<stereo_pan, cache_dirs, cache_files, call, idx, output_files,
               sox_runs, first_call, env_ok>>
argVars == <<pause, delay, cache_start>>
playVars == <<devices, output_device, stdin_reads, choice_input, play_idx,
              started, played, pauses, cleanup>>

-----------------------------------------------------------------------------
(* Bounds *)

MaxSelLen == 4
MaxDirEntries == 4
MaxLines == 3
MaxTracks == 3
MaxDevices == 2
MaxReads == 2

-----------------------------------------------------------------------------
(* Option<isize> *)

None == [some |-> FALSE, val |-> 0]
Some(i) == [some |-> TRUE, val |-> i]

-----------------------------------------------------------------------------
(* parse_track_ranges *)

Digits == {"0", "1", "2"}
SelChars == Digits \cup {"-", "+", ":", " ", "x"}

DigitVal(c) == IF c = "0" THEN 0 ELSE IF c = "1" THEN 1 ELSE 2

RECURSIVE StringsUpTo(_)
StringsUpTo(n) ==
    IF n = 0 THEN {<<>>}
    ELSE LET shorter == StringsUpTo(n - 1)
         IN  shorter \cup {Append(s, c) : s \in {t \in shorter : Len(t) = n - 1},
                                          c \in SelChars}

\* str::split(':'): the segments between separators, always at least one.
RECURSIVE SplitColon(_)
SplitColon(s) ==
    IF \A k \in 1..Len(s) : s[k] # ":" THEN <<s>>
    ELSE LET k == CHOOSE j \in 1..Len(s) :
                      s[j] = ":" /\ \A m \in 1..(j - 1) : s[m] # ":"
         IN  <<SubSeq(s, 1, k - 1)>> \o SplitColon(SubSeq(s, k + 1, Len(s)))

\* str::trim(): strips leading and trailing whitespace.
RECURSIVE Trim(_)
Trim(s) ==
    IF s = <<>> THEN s
    ELSE IF Head(s) = " " THEN Trim(Tail(s))
    ELSE IF s[Len(s)] = " " THEN Trim(SubSeq(s, 1, Len(s) - 1))
    ELSE s

RECURSIVE DigitsValue(_)
DigitsValue(s) ==
    IF s = <<>> THEN 0
    ELSE 10 * DigitsValue(SubSeq(s, 1, Len(s) - 1)) + DigitVal(s[Len(s)])

\* ParseIsize that drops the sign of the literal.
ParseIsize_unsigned(s) ==
    LET signed == s # <<>> /\ Head(s) \in {"-", "+"}
        body == IF signed THEN Tail(s) ELSE s
    IN  IF body = <<>> \/ \E k \in 1..Len(body) : body[k] \notin Digits
        THEN [ok |-> FALSE, val |-> 0]
        ELSE [ok |-> TRUE, val |-> DigitsValue(body)]

\* str::parse::<isize>(): optional sign, then one or more digits.
ParseIsize(s) ==
    LET signed == s # <<>> /\ Head(s) \in {"-", "+"}
        body == IF signed THEN Tail(s) ELSE s
    IN  IF body = <<>> \/ \E k \in 1..Len(body) : body[k] \notin Digits
        THEN [ok |-> FALSE, val |-> 0]
        ELSE [ok |-> TRUE,
              val |-> IF signed /\ Head(s) = "-" THEN 0 - DigitsValue(body)
                      ELSE DigitsValue(body)]

\* parse_track_ranges that takes an unparsable bound for an absent one.
parse_track_ranges_lenient(str) ==
    IF str = <<>> THEN [panic |-> FALSE, start |-> None, end |-> None]
    ELSE
      LET range_strs == SplitColon(str)
          lo == ParseIsize(Trim(range_strs[1]))
          hi == IF Len(range_strs) < 2 THEN [ok |-> FALSE, val |-> 0]
                ELSE ParseIsize(Trim(range_strs[2]))
      IN  [panic |-> FALSE,
           start |-> IF lo.ok THEN Some(lo.val) ELSE None,
           end |-> IF hi.ok THEN Some(hi.val) ELSE None]

\* The result of parse_track_ranges: a range, or a panic.
parse_track_ranges(str) ==
    IF str = <<>> THEN [panic |-> FALSE, start |-> None, end |-> None]
    ELSE
      LET range_strs == SplitColon(str)
          lo == ParseIsize(Trim(range_strs[1]))
          lower_bound == IF range_strs[1] # <<>> THEN Some(lo.val) ELSE None
      IN  IF range_strs[1] # <<>> /\ ~lo.ok
          THEN [panic |-> TRUE, start |-> None, end |-> None]
          ELSE IF Len(range_strs) < 2 \/ range_strs[2] = <<>>
          THEN [panic |-> FALSE, start |-> lower_bound, end |-> None]
          ELSE LET hi == ParseIsize(Trim(range_strs[2]))
               IN  IF ~hi.ok
                   THEN [panic |-> TRUE, start |-> None, end |-> None]
                   ELSE [panic |-> FALSE, start |-> lower_bound,
                         end |-> Some(hi.val)]

-----------------------------------------------------------------------------
(* Paths and the file system *)

\* A path as std::path sees it: parent directory, file stem and extension
\* (ext = "" when Path::extension() is None).
PathOf(d, s, e) == [dir |-> d, stem |-> s, ext |-> e]

valid_audio_exts == {"mp3", "wav", "flac"}
playlist_exts == {"m3u8"}

\* The entries a directory enumeration can yield.
DirUniverse ==
    {PathOf("album", "t1", "mp3"), PathOf("album", "t2", "wav"),
     PathOf("album", "t3", "flac"), PathOf("album", "t4", "mp3"),
     PathOf("album", "notes", "txt"), PathOf("album", "README", "")}

\* Files that exist when a playlist is loaded.
ExistingFiles ==
    {PathOf("", "a", "mp3"), PathOf("", "b", "flac"), PathOf("", "c", "txt"),
     PathOf("", "README", ""), PathOf("other", "a", "mp3")}

\* A playlist line: whether it starts with '#', and Path::new(line).
LineOf(h, p) == [hash |-> h, path |-> p]
BlankLine == LineOf(FALSE, PathOf("", "", ""))

LineUniverse ==
    {LineOf(TRUE, PathOf("", "#comment", "")), BlankLine,
     LineOf(FALSE, PathOf("", "a", "mp3")),
     LineOf(FALSE, PathOf("", "b", "flac")),
     LineOf(FALSE, PathOf("", "missing", "mp3")),
     LineOf(FALSE, PathOf("", "c", "txt")),
     LineOf(FALSE, PathOf("", "README", "")),
     LineOf(FALSE, PathOf("other", "a", "mp3"))}

\* What the input path can name.
InputOf(m, p) == [meta |-> m, path |-> p]

InputUniverse ==
    {InputOf("missing", PathOf("", "nowhere", "")),
     InputOf("dir", PathOf("", "album", "")),
     InputOf("file", PathOf("", "song", "mp3")),
     InputOf("file", PathOf("", "list", "m3u8")),
     InputOf("file", PathOf("", "notes", "txt")),
     InputOf("file", PathOf("", "README", ""))}

RECURSIVE DistinctSeqs(_, _)
DistinctSeqs(S, n) ==
    IF n = 0 THEN {<<>>}
    ELSE LET shorter == DistinctSeqs(S, n - 1)
             cand == {<<s, x>> \in {t \in shorter : Len(t) = n - 1} \X S :
                          \A k \in 1..(n - 1) : s[k] # x}
         IN  shorter \cup {Append(c[1], c[2]) : c \in cand}

RECURSIVE SeqsUpTo(_, _)
SeqsUpTo(S, n) ==
    IF n = 0 THEN {<<>>}
    ELSE LET shorter == SeqsUpTo(S, n - 1)
         IN  shorter \cup
             {Append(s, x) : s \in {t \in shorter : Len(t) = n - 1}, x \in S}

-----------------------------------------------------------------------------
(* parse_playlist *)

\* The loop of parse_playlist from line k on; a panic ends it.
RECURSIVE PlaylistLoop(_, _, _, _)
PlaylistLoop(lines, k, result, printed) ==
    IF k > Len(lines) THEN [panic |-> FALSE, result |-> result, diags |-> printed]
    ELSE LET line == lines[k]
             file_path == line.path
         IN  IF line.hash
             THEN PlaylistLoop(lines, k + 1, result, printed)
             ELSE IF file_path \notin ExistingFiles
             THEN PlaylistLoop(lines, k + 1, result,
                               Append(printed, [line |-> k, msg |-> "not found"]))
             ELSE IF file_path.ext = ""
             THEN [panic |-> TRUE, result |-> result, diags |-> printed]
             ELSE IF file_path.ext \notin valid_audio_exts
             THEN PlaylistLoop(lines, k + 1, result,
                               Append(printed, [line |-> k, msg |-> "unsupported"]))
             ELSE PlaylistLoop(lines, k + 1, Append(result, file_path), printed)

parse_playlist(lines) == PlaylistLoop(lines, 1, <<>>, <<>>)

-----------------------------------------------------------------------------
(* get_audio_paths *)

\* `i < bound as usize` for an index i of a Vec: a negative isize casts to a
\* value of at least 2^63, above every index.
IndexBelow(i, bound) == IF bound < 0 THEN TRUE ELSE i < bound

Max(a, b) == IF a >= b THEN a ELSE b

\* The entries of the directory that pass the extension filter.
RECURSIVE folder_song_contents(_)
folder_song_contents(entries) ==
    IF entries = <<>> THEN <<>>
    ELSE IF Head(entries).ext # "" /\ Head(entries).ext \in valid_audio_exts
         THEN <<Head(entries)>> \o folder_song_contents(Tail(entries))
         ELSE folder_song_contents(Tail(entries))

\* lower_bound read as a 1-based track number.
lower_bound_one_based(range) == IF range.start.some THEN range.start.val - 1 ELSE 0

lower_bound(range) == IF range.start.some THEN range.start.val ELSE 0

\* upper_bound that keeps one track too many for a negative limit.
upper_bound_off_by_one(range, track_count) ==
    LET ub == IF range.end.some THEN range.end.val ELSE 0
    IN  IF ub > 1 THEN ub
        ELSE IF ub < 0 THEN Max(track_count - (0 - ub) + 1, 0)
        ELSE ub

\* upper_bound after the "Calculate and print selection range" block.
upper_bound(range, track_count) ==
    LET ub == IF range.end.some THEN range.end.val ELSE 0
    IN  IF ub > 1 THEN ub
        ELSE IF ub < 0 THEN Max(track_count - (0 - ub), 0)
        ELSE ub

\* SelectLoop whose end test treats a limit of 1 like 0 (no bound).
RECURSIVE SelectLoop_one_unbounded(_, _, _, _, _)
SelectLoop_one_unbounded(folder, i, lower, upper, selected_songs) ==
    IF i >= Len(folder) THEN selected_songs
    ELSE IF IndexBelow(i, lower)
    THEN SelectLoop_one_unbounded(folder, i + 1, lower, upper, selected_songs)
    ELSE IF upper > 1 /\ ~IndexBelow(i, upper)
    THEN selected_songs
    ELSE SelectLoop_one_unbounded(folder, i + 1, lower, upper,
                                  Append(selected_songs, folder[i + 1]))

\* SelectLoop whose end index is inclusive.
RECURSIVE SelectLoop_inclusive(_, _, _, _, _)
SelectLoop_inclusive(folder, i, lower, upper, selected_songs) ==
    IF i >= Len(folder) THEN selected_songs
    ELSE IF IndexBelow(i, lower)
    THEN SelectLoop_inclusive(folder, i + 1, lower, upper, selected_songs)
    ELSE IF upper # 0 /\ ~IndexBelow(i, upper + 1)
    THEN selected_songs
    ELSE SelectLoop_inclusive(folder, i + 1, lower, upper,
                              Append(selected_songs, folder[i + 1]))

\* The selection loop from index i on.
RECURSIVE SelectLoop(_, _, _, _, _)
SelectLoop(folder, i, lower, upper, selected_songs) ==
    IF i >= Len(folder) THEN selected_songs
    ELSE IF IndexBelow(i, lower)
    THEN SelectLoop(folder, i + 1, lower, upper, selected_songs)
    ELSE IF upper # 0 /\ ~IndexBelow(i, upper)
    THEN selected_songs
    ELSE SelectLoop(folder, i + 1, lower, upper,
                    Append(selected_songs, folder[i + 1]))

select_range(folder, range) ==
    SelectLoop(folder, 0, lower_bound(range),
               upper_bound(range, Len(folder)), <<>>)

Returned(paths, printed) == [panic |-> FALSE, result |-> paths, diags |-> printed]
Panicked(printed) == [panic |-> TRUE, result |-> <<>>, diags |-> printed]

\* get_audio_paths that slices a playlist like a directory.
get_audio_paths_sliced(input, entries, lines, range) ==
    IF input.meta = "missing" THEN Panicked(<<>>)
    ELSE IF input.meta = "file"
    THEN IF input.path.ext = "" THEN Panicked(<<>>)
         ELSE IF input.path.ext \in valid_audio_exts
         THEN Returned(<<input.path>>, <<>>)
         ELSE IF input.path.ext \in playlist_exts
         THEN LET pl == parse_playlist(lines)
              IN  IF pl.panic THEN Panicked(pl.diags)
                  ELSE Returned(select_range(pl.result, range), pl.diags)
         ELSE Panicked(<<>>)
    ELSE Returned(select_range(folder_song_contents(entries), range), <<>>)

get_audio_paths(input, entries, lines, range) ==
    IF input.meta = "missing" THEN Panicked(<<>>)
    ELSE IF input.meta = "file"
    THEN IF input.path.ext = "" THEN Panicked(<<>>)
         ELSE IF input.path.ext \in valid_audio_exts
         THEN Returned(<<input.path>>, <<>>)
         ELSE IF input.path.ext \in playlist_exts
         THEN LET pl == parse_playlist(lines)
              IN  IF pl.panic THEN Panicked(pl.diags)
                  ELSE Returned(pl.result, pl.diags)
         ELSE Panicked(<<>>)
    ELSE Returned(select_range(folder_song_contents(entries), range), <<>>)

-----------------------------------------------------------------------------
(* State machine *)

Offsets == {None} \cup {Some(i) : i \in (0 - 1)..(MaxDirEntries + 1)}
Limits == {None} \cup {Some(i) : i \in (0 - (MaxDirEntries + 1))..(MaxDirEntries + 1)}

NoCache ==
    /\ stereo_pan = 0
    /\ cache_dirs = {}
    /\ cache_files = {}
    /\ call = 0
    /\ idx = 0
    /\ output_files = <<>>
    /\ sox_runs = 0
    /\ first_call = [output_files |-> <<>>, sox_runs |-> 0]
    /\ env_ok = TRUE

NoPlay ==
    /\ fatal = ""
    /\ io = {}
    /\ cache_log = <<>>
    /\ devices = 0
    /\ output_device = None
    /\ stdin_reads = 0
    /\ choice_input = <<>>
    /\ play_idx = 0
    /\ started = <<>>
    /\ played = <<>>
    /\ pauses = <<>>
    /\ cleanup = "none"

NoArgs ==
    /\ pause = 0
    /\ delay = 0
    /\ cache_start = {}

NoSelect ==
    /\ album_path = InputOf("missing", PathOf("", "nowhere", ""))
    /\ dir_entries = <<>>
    /\ playlist_lines = <<>>
    /\ song_paths = <<>>
    /\ diags = <<>>

\* main, up to the call of parse_track_ranges.
InitParse ==
    /\ pc = "main"
    /\ track_select \in StringsUpTo(MaxSelLen)
    /\ track_range = [start |-> None, end |-> None]
    /\ NoSelect
    /\ NoCache
    /\ NoArgs
    /\ NoPlay

ParseTrackRanges ==
    /\ pc = "main"
    /\ LET r == parse_track_ranges(track_select)
       IN  IF r.panic
           THEN /\ pc' = "panic"
                /\ fatal' = "parse_track_ranges"
                /\ UNCHANGED track_range
           ELSE /\ pc' = "parsed"
                /\ track_range' = [start |-> r.start, end |-> r.end]
                /\ UNCHANGED fatal
    /\ UNCHANGED <<track_select, selectVars, cacheVars, argVars, playVars,
                   io, cache_log>>

NextParse == ParseTrackRanges

SpecParse == InitParse /\ [][NextParse]_vars

\* main, after parse_track_ranges has returned.
InitSelect ==
    /\ pc = "parsed"
    /\ track_select = <<>>
    /\ album_path \in InputUniverse
    /\ dir_entries \in IF album_path.meta = "dir"
                        THEN DistinctSeqs(DirUniverse, MaxDirEntries)
                        ELSE {<<>>}
    /\ playlist_lines \in IF album_path.meta = "file"
                              /\ album_path.path.ext \in playlist_exts
                           THEN SeqsUpTo(LineUniverse, MaxLines)
                           ELSE {<<>>}
    /\ track_range \in [start : Offsets, end : Limits]
    /\ song_paths = <<>>
    /\ diags = <<>>
    /\ NoCache
    /\ NoArgs
    /\ NoPlay

\* The I/O of get_audio_paths: fs::metadata, then read_to_string of the
\* playlist or fs::read_dir of the directory.
InputEffects(input) ==
    {"metadata"}
    \cup (IF input.meta = "file" /\ input.path.ext \in playlist_exts
          THEN {"read_playlist"} ELSE {})
    \cup (IF input.meta = "dir" THEN {"read_dir"} ELSE {})

GetAudioPaths ==
    /\ pc = "parsed"
    /\ LET r == get_audio_paths(album_path, dir_entries, playlist_lines, track_range)
       IN  /\ pc' = IF r.panic THEN "panic" ELSE "selected"
           /\ fatal' = IF r.panic THEN "get_audio_paths" ELSE fatal
           /\ song_paths' = r.result
           /\ diags' = r.diags
    /\ io' = io \cup InputEffects(album_path)
    /\ UNCHANGED <<track_select, track_range, album_path, dir_entries,
                   playlist_lines, cacheVars, argVars, playVars, cache_log>>

NextSelect == GetAudioPaths

SpecSelect == InitSelect /\ [][NextSelect]_vars

-----------------------------------------------------------------------------
(* preproccess_audio *)

\* Tracks get_audio_paths can hand over: a directory's files, or playlist
\* entries from several directories.
TrackUniverse ==
    {PathOf("album", "t1", "mp3"), PathOf("album", "t2", "wav"),
     PathOf("other", "t1", "mp3")}

\* Pan values in thousandths; none is halfway between two hundredths.
PanUniverse == {0, 4, 0 - 254}

\* format!("p{0:.2}", stereo_pan): the sign and the pan rounded to hundredths.
CacheDirName(pan) ==
    LET magnitude == IF pan < 0 THEN 0 - pan ELSE pan
    IN  [negative |-> pan < 0, hundredths |-> (magnitude + 5) \div 10]

\* cache_dir.join(input_path.file_name())
OutputPath(pan, input_path) ==
    [cache_dir |-> CacheDirName(pan), stem |-> input_path.stem,
     ext |-> input_path.ext]

\* An existence test that looks in the wrong place and never finds the file.
OutputExists_never(output_path, files) == FALSE

\* output_path.exists()
OutputExists(output_path, files) == output_path \in files

InitialCaches ==
    {[dirs |-> {}, files |-> {}]}
    \cup UNION {{[dirs |-> {CacheDirName(p)}, files |-> F] :
                     F \in SUBSET {OutputPath(p, t) : t \in TrackUniverse}} :
                p \in PanUniverse}

\* main, at the call of preproccess_audio.
InitCache ==
    /\ pc = "preprocess"
    /\ track_select = <<>>
    /\ track_range = [start |-> None, end |-> None]
    /\ album_path = InputOf("file", PathOf("", "list", "m3u8"))
    /\ dir_entries = <<>>
    /\ playlist_lines = <<>>
    /\ song_paths \in SeqsUpTo(TrackUniverse, MaxTracks)
    /\ diags = <<>>
    /\ stereo_pan \in PanUniverse
    /\ \E c \in InitialCaches : cache_dirs = c.dirs /\ cache_files = c.files
    /\ call = 0
    /\ idx = 0
    /\ output_files = <<>>
    /\ sox_runs = 0
    /\ first_call = [output_files |-> <<>>, sox_runs |-> 0]
    /\ env_ok = TRUE
    /\ pause = 0
    /\ delay = 0
    /\ cache_start = cache_files
    /\ NoPlay

\* Entry of preproccess_audio: create_dir_all of the cache directory.
MakeCacheDir ==
    /\ pc = "preprocess"
    /\ call' = call + 1
    /\ idx' = 0
    /\ output_files' = <<>>
    /\ sox_runs' = 0
    /\ io' = io \cup {"create_dir_all"}
    /\ \/ /\ pc' = "sox_loop"
          /\ cache_dirs' = cache_dirs \cup {CacheDirName(stereo_pan)}
          /\ UNCHANGED fatal
       \/ /\ CacheDirName(stereo_pan) \notin cache_dirs
          /\ pc' = "panic"
          /\ fatal' = "create_dir_all"
          /\ UNCHANGED cache_dirs
    /\ UNCHANGED <<track_select, track_range, selectVars, stereo_pan,
                   cache_files, first_call, env_ok, argVars, playVars,
                   cache_log>>

CurrentOutput == OutputPath(stereo_pan, song_paths[idx + 1])

\* A cache hit or a SOX invocation of the current iteration: the output
\* path, the source, and whether the output existed at that moment.
LogEntry(kind) ==
    [kind |-> kind, out |-> CurrentOutput, src |-> song_paths[idx + 1],
     existed |-> CurrentOutput \in cache_files]

\* A loop iteration whose output file already exists.
CacheHit ==
    /\ pc = "sox_loop"
    /\ idx < Len(song_paths)
    /\ OutputExists(CurrentOutput, cache_files)
    /\ output_files' = Append(output_files, CurrentOutput)
    /\ idx' = idx + 1
    /\ cache_log' = Append(cache_log, LogEntry("hit"))
    /\ UNCHANGED <<pc, track_select, track_range, selectVars, stereo_pan,
                   cache_dirs, cache_files, call, sox_runs, first_call, env_ok,
                   argVars, playVars, fatal, io>>

\* RunSox that skips a track whose SOX run failed and goes on.
RunSox_continue ==
    /\ pc = "sox_loop"
    /\ idx < Len(song_paths)
    /\ ~OutputExists(CurrentOutput, cache_files)
    /\ sox_runs' = sox_runs + 1
    /\ cache_log' = Append(cache_log, LogEntry("sox"))
    /\ io' = io \cup {"sox"}
    /\ \/ /\ cache_files' = cache_files \cup {CurrentOutput}
          /\ output_files' = Append(output_files, CurrentOutput)
          /\ idx' = idx + 1
          /\ UNCHANGED <<pc, env_ok, fatal>>
       \/ /\ env_ok' = FALSE
          /\ output_files' = Append(output_files, CurrentOutput)
          /\ idx' = idx + 1
          /\ UNCHANGED <<pc, cache_files, fatal>>
       \/ /\ idx' = idx + 1
          /\ UNCHANGED <<pc, fatal, cache_files, output_files, env_ok>>
    /\ UNCHANGED <<track_select, track_range, selectVars, stereo_pan,
                   cache_dirs, call, first_call, argVars, playVars>>

\* A loop iteration that runs SOX: it exits 0 with or without having written
\* the output, exits non-zero, or cannot be launched.
RunSox ==
    /\ pc = "sox_loop"
    /\ idx < Len(song_paths)
    /\ ~OutputExists(CurrentOutput, cache_files)
    /\ sox_runs' = sox_runs + 1
    /\ cache_log' = Append(cache_log, LogEntry("sox"))
    /\ io' = io \cup {"sox"}
    /\ \/ /\ cache_files' = cache_files \cup {CurrentOutput}
          /\ output_files' = Append(output_files, CurrentOutput)
          /\ idx' = idx + 1
          /\ UNCHANGED <<pc, env_ok, fatal>>
       \/ /\ env_ok' = FALSE
          /\ output_files' = Append(output_files, CurrentOutput)
          /\ idx' = idx + 1
          /\ UNCHANGED <<pc, cache_files, fatal>>
       \/ /\ pc' = "panic"
          /\ fatal' = "sox"
          /\ UNCHANGED <<cache_files, output_files, idx, env_ok>>
    /\ UNCHANGED <<track_select, track_range, selectVars, stereo_pan,
                   cache_dirs, call, first_call, argVars, playVars>>

\* The loop is over: preproccess_audio returns output_files.
ReturnOutputFiles ==
    /\ pc = "sox_loop"
    /\ idx = Len(song_paths)
    /\ pc' = "preprocessed"
    /\ UNCHANGED <<track_select, track_range, selectVars, cacheVars, argVars,
                   playVars, fatal, io, cache_log>>

\* preproccess_audio is called once more with the same arguments.
CallAgain ==
    /\ pc = "preprocessed"
    /\ call = 1
    /\ first_call' = [output_files |-> output_files, sox_runs |-> sox_runs]
    /\ pc' = "preprocess"
    /\ UNCHANGED <<track_select, track_range, selectVars, stereo_pan,
                   cache_dirs, cache_files, call, idx, output_files,
                   sox_runs, env_ok, argVars, playVars, fatal, io, cache_log>>

\* Something outside the program removes a cache file.
RemoveCacheFile ==
    /\ pc \in {"preprocess", "sox_loop", "preprocessed"}
    /\ \E f \in cache_files : cache_files' = cache_files \ {f}
    /\ env_ok' = FALSE
    /\ UNCHANGED <<pc, track_select, track_range, selectVars, stereo_pan,
                   cache_dirs, call, idx, output_files, sox_runs, first_call,
                   argVars, playVars, fatal, io, cache_log>>

NextCache ==
    \/ MakeCacheDir
    \/ CacheHit
    \/ RunSox
    \/ ReturnOutputFiles
    \/ CallAgain
    \/ RemoveCacheFile

SpecCache == InitCache /\ [][NextCache]_vars

-----------------------------------------------------------------------------
(* main: one run of the program *)

\* Selectors, directory entries and playlist lines of the modelled runs.
MainSelectors ==
    {<<>>, <<"1", ":">>, <<":", "-", "1">>, <<"-", "1", ":">>, <<"x">>}
MainDirUniverse ==
    {PathOf("album", "t1", "mp3"), PathOf("album", "t2", "wav"),
     PathOf("album", "notes", "txt")}
MainLineUniverse ==
    {LineOf(FALSE, PathOf("", "a", "mp3")),
     LineOf(FALSE, PathOf("other", "a", "mp3")),
     LineOf(FALSE, PathOf("", "b", "flac"))}
MainPans == {0, 0 - 254}
Seconds == {0, 3}

\* What a line read from stdin can hold (empty at end of input).
StdinLines ==
    {<<>>, <<"x">>, <<"0">>, <<"1">>, <<"1", "2">>, <<"-", "1">>, <<" ", "1">>}

\* str::parse::<usize>(): like isize, but a '-' sign is an error.
ParseUsize(s) ==
    IF s # <<>> /\ Head(s) = "-" THEN [ok |-> FALSE, val |-> 0]
    ELSE ParseIsize(s)

InitMain ==
    /\ pc = "main"
    /\ album_path \in InputUniverse
    /\ track_select \in IF album_path.meta = "dir" THEN MainSelectors
                         ELSE {<<>>, <<"x">>}
    /\ track_range = [start |-> None, end |-> None]
    /\ dir_entries \in IF album_path.meta = "dir"
                        THEN DistinctSeqs(MainDirUniverse, MaxTracks)
                        ELSE {<<>>}
    /\ playlist_lines \in IF album_path.meta = "file"
                              /\ album_path.path.ext \in playlist_exts
                           THEN SeqsUpTo(MainLineUniverse, MaxTracks)
                           ELSE {<<>>}
    /\ song_paths = <<>>
    /\ diags = <<>>
    /\ stereo_pan \in MainPans
    /\ \E stale \in BOOLEAN :
          IF stale
          THEN /\ cache_dirs = {CacheDirName(stereo_pan)}
               /\ cache_files = {OutputPath(stereo_pan, PathOf("", "a", "mp3"))}
          ELSE /\ cache_dirs = {}
               /\ cache_files = {}
    /\ cache_start = cache_files
    /\ call = 0
    /\ idx = 0
    /\ output_files = <<>>
    /\ sox_runs = 0
    /\ first_call = [output_files |-> <<>>, sox_runs |-> 0]
    /\ env_ok = TRUE
    /\ pause \in Seconds
    /\ delay \in Seconds
    /\ NoPlay

\* main between get_audio_paths and preproccess_audio: prints the paths and
\* resolves the temp directory under env::current_dir().
EnterPreprocess ==
    /\ pc = "selected"
    /\ \/ /\ pc' = "preprocess"
          /\ UNCHANGED fatal
       \/ /\ pc' = "panic"
          /\ fatal' = "current_dir"
    /\ UNCHANGED <<track_select, track_range, selectVars, cacheVars, argVars,
                   playVars, io, cache_log>>

\* get_devices up to the prompt: enumerates and prints the output devices,
\* none or MaxDevices of them.
ListDevices ==
    /\ pc = "preprocessed"
    /\ io' = io \cup {"output_devices"}
    /\ \/ /\ devices' \in {0, MaxDevices}
          /\ pc' = "choose"
          /\ UNCHANGED fatal
       \/ /\ pc' = "panic"
          /\ fatal' = "cpal"
          /\ UNCHANGED devices
    /\ UNCHANGED <<track_select, track_range, selectVars, cacheVars, argVars,
                   output_device, stdin_reads, choice_input, play_idx, started,
                   played, pauses, cleanup, cache_log>>

\* devices.get(i) with an off-by-one bound.
DeviceAt_inclusive(n, i) == i <= n

\* devices.get(i) is Some for the n enumerated devices.
DeviceAt(n, i) == i < n

\* One turn of the loop of get_devices: read a line, parse it, look it up;
\* a found index is fetched from a second enumeration of the devices.
ReadChoice ==
    /\ pc = "choose"
    /\ stdin_reads < MaxReads
    /\ stdin_reads' = stdin_reads + 1
    /\ io' = io \cup {"stdin"}
    /\ \/ /\ pc' = "panic"
          /\ fatal' = "stdin"
          /\ choice_input' = <<>>
          /\ UNCHANGED output_device
       \/ \E line \in StdinLines :
             /\ choice_input' = line
             /\ LET r == ParseUsize(Trim(line))
                IN  IF r.ok /\ DeviceAt(devices, r.val)
                    THEN \/ /\ output_device' = Some(r.val)
                            /\ pc' = "device_selected"
                            /\ UNCHANGED fatal
                         \/ /\ pc' = "panic"
                            /\ fatal' = "cpal"
                            /\ UNCHANGED output_device
                    ELSE UNCHANGED <<pc, fatal, output_device>>
    /\ UNCHANGED <<track_select, track_range, selectVars, cacheVars, argVars,
                   devices, play_idx, started, played, pauses, cleanup,
                   cache_log>>

\* The pre-playback sleep of main; get_devices has returned and its local
\* choice_input is gone.
Delay ==
    /\ pc = "device_selected"
    /\ delay > 0
    /\ pc' = "delaying"
    /\ choice_input' = <<>>
    /\ UNCHANGED <<track_select, track_range, selectVars, cacheVars, argVars,
                   devices, output_device, stdin_reads, play_idx, started,
                   played, pauses, cleanup, fatal, io, cache_log>>

\* main reaches the playback loop.
StartPlayback ==
    /\ \/ pc = "delaying"
       \/ pc = "device_selected" /\ ~(delay > 0)
    /\ pc' = "play_loop"
    /\ choice_input' = <<>>
    /\ UNCHANGED <<track_select, track_range, selectVars, cacheVars, argVars,
                   devices, output_device, stdin_reads, play_idx, started,
                   played, pauses, cleanup, fatal, io, cache_log>>

\* pipe_audio as called by main with the pan of the run in effect.
PipeAudioSink_panned(device, audio_file_path) ==
    IF stereo_pan # 0 THEN "spatial" ELSE "plain"

\* The sink pipe_audio plays through: Sink::try_new on the stream handle.
PipeAudioSink(device, audio_file_path) == "plain"

\* StartTrack that skips a track pipe_audio cannot play and goes on.
StartTrack_skip ==
    /\ pc = "play_loop"
    /\ play_idx < Len(output_files)
    /\ play_idx' = play_idx + 1
    /\ io' = io \cup {"pipe_audio"}
    /\ LET song == output_files[play_idx + 1]
       IN  \/ /\ song \in cache_files
              /\ started' = Append(started,
                                   [track |-> play_idx + 1, path |-> song,
                                    sink |-> PipeAudioSink(output_device, song)])
              /\ pc' = "playing"
              /\ UNCHANGED fatal
           \/ /\ pc' = "play_loop"
              /\ UNCHANGED <<fatal, started>>
    /\ UNCHANGED <<track_select, track_range, selectVars, cacheVars, argVars,
                   devices, output_device, stdin_reads, choice_input, played, pauses,
                   cleanup, cache_log>>

\* The loop takes the next song and pipe_audio opens the device, opens and
\* decodes the file and appends it to the sink; any of these may fail.
StartTrack ==
    /\ pc = "play_loop"
    /\ play_idx < Len(output_files)
    /\ play_idx' = play_idx + 1
    /\ io' = io \cup {"pipe_audio"}
    /\ LET song == output_files[play_idx + 1]
       IN  \/ /\ song \in cache_files
              /\ started' = Append(started,
                                   [track |-> play_idx + 1, path |-> song,
                                    sink |-> PipeAudioSink(output_device, song)])
              /\ pc' = "playing"
              /\ UNCHANGED fatal
           \/ /\ pc' = "panic"
              /\ fatal' = "pipe_audio"
              /\ UNCHANGED started
    /\ UNCHANGED <<track_select, track_range, selectVars, cacheVars, argVars,
                   devices, output_device, stdin_reads, choice_input, played, pauses,
                   cleanup, cache_log>>

\* sink.sleep_until_end() returns; main sleeps when a pause is configured.
FinishTrack ==
    /\ pc = "playing"
    /\ played' = Append(played, play_idx)
    /\ IF pause > 0
       THEN /\ pc' = "pausing"
            /\ pauses' = Append(pauses, play_idx)
       ELSE /\ pc' = "play_loop"
            /\ UNCHANGED pauses
    /\ UNCHANGED <<track_select, track_range, selectVars, cacheVars, argVars,
                   devices, output_device, stdin_reads, choice_input, play_idx, started,
                   cleanup, fatal, io, cache_log>>

\* The inter-track sleep is over.
EndPause ==
    /\ pc = "pausing"
    /\ pc' = "play_loop"
    /\ UNCHANGED <<track_select, track_range, selectVars, cacheVars, argVars,
                   playVars, fatal, io, cache_log>>

\* RemoveTemp that treats a failed removal as fatal.
RemoveTemp_fatal ==
    /\ pc = "play_loop"
    /\ play_idx = Len(output_files)
    /\ io' = io \cup {"remove_dir_all"}
    /\ \/ /\ cleanup' = "removed"
          /\ pc' = "done"
          /\ cache_dirs' = {}
          /\ cache_files' = {}
       \/ /\ cleanup' = "failed"
          /\ pc' = "panic"
          /\ cache_files' \in SUBSET cache_files
          /\ UNCHANGED cache_dirs
    /\ UNCHANGED <<track_select, track_range, selectVars, stereo_pan, call,
                   idx, output_files, sox_runs, first_call, env_ok, argVars,
                   devices, output_device, stdin_reads, choice_input, play_idx, started,
                   played, pauses, fatal, cache_log>>

\* After the loop: fs::remove_dir_all of the temp directory, which removes
\* everything, or fails having removed some of the files.
RemoveTemp ==
    /\ pc = "play_loop"
    /\ play_idx = Len(output_files)
    /\ io' = io \cup {"remove_dir_all"}
    /\ pc' = "done"
    /\ \/ /\ cleanup' = "removed"
          /\ cache_dirs' = {}
          /\ cache_files' = {}
       \/ /\ cleanup' = "failed"
          /\ cache_files' \in SUBSET cache_files
          /\ UNCHANGED cache_dirs
    /\ UNCHANGED <<track_select, track_range, selectVars, stereo_pan, call,
                   idx, output_files, sox_runs, first_call, env_ok, argVars,
                   devices, output_device, stdin_reads, choice_input, play_idx, started,
                   played, pauses, fatal, cache_log>>

\* One run of main, from the parsed arguments to Done; nothing but the
\* program touches the temp directory while it runs.
Next ==
    \/ ParseTrackRanges
    \/ GetAudioPaths
    \/ EnterPreprocess
    \/ MakeCacheDir
    \/ CacheHit
    \/ RunSox
    \/ ReturnOutputFiles
    \/ ListDevices
    \/ ReadChoice
    \/ Delay
    \/ StartPlayback
    \/ StartTrack
    \/ FinishTrack
    \/ EndPause
    \/ RemoveTemp

Spec == InitMain /\ [][Next]_vars

-----------------------------------------------------------------------------
(* Properties of the track selection (SpecSelect) *)

Min(a, b) == IF a <= b THEN a ELSE b

\* The elements of s at the 0-based indices lo <= i < hi.
Slice(s, lo, hi) == [j \in 1..Max(hi - lo, 0) |-> s[lo + j]]

Candidates == folder_song_contents(dir_entries)
CandLen == Len(Candidates)
DirSelected == pc = "selected" /\ album_path.meta = "dir"
OffsetValue == IF track_range.start.some THEN track_range.start.val ELSE 0
LimitIs(b) == track_range.end = Some(b)
HasLimit == track_range.end.some
Limit == track_range.end.val

\* C1: for a directory, offset a >= 0 and limit -n (n >= 1) on len > n
\* candidates, exactly the candidates at indices a <= i < len - n are
\* returned, in candidate order.
C1_NegativeLimitDropsFromEnd ==
    (DirSelected /\ HasLimit /\ Limit < 0 /\ OffsetValue >= 0 /\ CandLen > 0 - Limit)
        => song_paths = Slice(Candidates, OffsetValue, CandLen + Limit)

C1_Witness ==
    /\ DirSelected
    /\ track_range = [start |-> Some(1), end |-> Some(0 - 1)]
    /\ CandLen = 4
    /\ song_paths = <<Candidates[2], Candidates[3]>>

\* C2: with a negative limit -N the selection never contains a candidate at
\* an index >= len - N; in particular it is empty when N >= len.
C2_NegativeLimitNeverKeepsTail ==
    (DirSelected /\ HasLimit /\ Limit < 0)
        => \A i \in 0..(CandLen - 1) :
              i >= CandLen + Limit
                  => \A k \in 1..Len(song_paths) : song_paths[k] # Candidates[i + 1]

\* C3 as stated: a limit of 0 and a limit of 1 both select what an absent
\* limit selects.
C3_ZeroAndOneLimitUnbounded ==
    (DirSelected /\ (LimitIs(0) \/ LimitIs(1)))
        => song_paths = select_range(Candidates,
                                     [start |-> track_range.start, end |-> None])

\* C3 amended: a limit of 0 selects what an absent limit selects; a limit of 1
\* is an exclusive end index: it selects the first candidate when the offset
\* is 0 or absent and nothing otherwise.
C3_ZeroLimitUnbounded ==
    /\ (DirSelected /\ LimitIs(0))
        => song_paths = select_range(Candidates,
                                     [start |-> track_range.start, end |-> None])
    /\ (DirSelected /\ LimitIs(1))
        => song_paths = IF OffsetValue = 0 /\ CandLen >= 1
                        THEN <<Candidates[1]>> ELSE <<>>

C3_Witness ==
    /\ DirSelected
    /\ track_range = [start |-> Some(1), end |-> Some(0)]
    /\ CandLen = 3
    /\ song_paths = <<Candidates[2], Candidates[3]>>

\* C4: for a directory, offset k >= 0 and no limit, the result is
\* candidates[k:], empty when k >= len.
C4_AbsentLimitSuffix ==
    (DirSelected /\ ~HasLimit /\ OffsetValue >= 0)
        => song_paths = IF OffsetValue >= CandLen THEN <<>>
                        ELSE Slice(Candidates, OffsetValue, CandLen)

C4_Witness ==
    /\ DirSelected
    /\ track_range = [start |-> Some(2), end |-> None]
    /\ CandLen = 4
    /\ song_paths = <<Candidates[3], Candidates[4]>>

\* C5: a limit b >= 2 is an exclusive end index: with offset a >= 0 the result
\* is the candidates at indices a <= i < min(b, len), so it has
\* max(min(b, len) - a, 0) tracks and is empty when a >= b.
C5_LimitIsEndIndex ==
    (DirSelected /\ HasLimit /\ Limit >= 2 /\ OffsetValue >= 0)
        => /\ song_paths = Slice(Candidates, OffsetValue, Min(Limit, CandLen))
           /\ Len(song_paths) = Max(Min(Limit, CandLen) - OffsetValue, 0)
           /\ OffsetValue >= Limit => song_paths = <<>>

C5_Witness ==
    /\ DirSelected
    /\ track_range = [start |-> Some(1), end |-> Some(3)]
    /\ CandLen = 4
    /\ song_paths = <<Candidates[2], Candidates[3]>>

-----------------------------------------------------------------------------
(* Properties of the playlist loader (SpecSelect) *)

IsPlaylist == album_path.meta = "file" /\ album_path.path.ext \in playlist_exts
IsAudioFile == album_path.meta = "file" /\ album_path.path.ext \in valid_audio_exts
PlaylistLoaded == IsPlaylist /\ pc # "parsed"

Playable(line) ==
    /\ ~line.hash
    /\ line.path \in ExistingFiles
    /\ line.path.ext \in {"mp3", "wav", "flac"}
Skippable(line) == ~line.hash /\ ~Playable(line)

\* The playable lines of the playlist, in line order.
RECURSIVE ResolvedPlaylist(_)
ResolvedPlaylist(lines) ==
    IF lines = <<>> THEN <<>>
    ELSE IF Playable(Head(lines))
         THEN <<Head(lines).path>> \o ResolvedPlaylist(Tail(lines))
         ELSE ResolvedPlaylist(Tail(lines))

\* C7: loading a playlist never aborts on a bad entry: every non-comment line
\* that is blank, missing, of an unsupported type or without extension is
\* skipped with a diagnostic and the load goes on.
C7_PlaylistNeverAborts ==
    PlaylistLoaded
        => /\ pc = "selected"
           /\ \A k \in 1..Len(playlist_lines) :
                 Skippable(playlist_lines[k])
                     => \E d \in 1..Len(diags) : diags[d].line = k

\* C8: a playlist resolves to its playable lines in line order, and every
\* other non-comment line produces exactly one skip diagnostic.
C8_PlaylistResolvesToPlayableLines ==
    PlaylistLoaded
        => /\ pc = "selected"
           /\ song_paths = ResolvedPlaylist(playlist_lines)
           /\ \A k \in 1..Len(playlist_lines) :
                 Cardinality({d \in 1..Len(diags) : diags[d].line = k})
                     = IF Skippable(playlist_lines[k]) THEN 1 ELSE 0

\* C9: the range selector is not applied to a file or a playlist: a single
\* audio file gives the one-element list with it, a playlist gives the whole
\* resolved playlist, whatever the selector is.
C9_RangeOnlyForDirectories ==
    /\ (IsAudioFile /\ pc # "parsed")
           => pc = "selected" /\ song_paths = <<album_path.path>>
    /\ (IsPlaylist /\ pc = "selected")
           => song_paths = ResolvedPlaylist(playlist_lines)
    /\ (album_path.meta = "file" /\ pc # "parsed")
           => LET r == get_audio_paths(album_path, dir_entries, playlist_lines,
                                       [start |-> None, end |-> None])
              IN  /\ (pc = "panic") = r.panic
                  /\ song_paths = r.result
                  /\ diags = r.diags

C9_Witness ==
    /\ IsPlaylist
    /\ pc = "selected"
    /\ track_range = [start |-> Some(1), end |-> Some(0 - 1)]
    /\ song_paths = <<PathOf("", "a", "mp3"), PathOf("", "b", "flac")>>

-----------------------------------------------------------------------------
(* Properties of the range-selector parser (SpecParse) *)

DigitChar(d) ==
    CASE d = 0 -> "0" [] d = 1 -> "1" [] d = 2 -> "2" [] d = 3 -> "3"
      [] d = 4 -> "4" [] d = 5 -> "5" [] d = 6 -> "6" [] d = 7 -> "7"
      [] d = 8 -> "8" [] d = 9 -> "9"

\* The decimal notation of an integer.
RECURSIVE DecNat(_)
DecNat(n) == IF n < 10 THEN <<DigitChar(n)>>
             ELSE Append(DecNat(n \div 10), DigitChar(n % 10))
Dec(a) == IF a < 0 THEN <<"-">> \o DecNat(0 - a) ELSE DecNat(a)

\* The integers whose notation uses the digits of SelChars.
SelectorInts ==
    {a \in (0 - 222)..222 :
        \A k \in 1..Len(Dec(a)) : Dec(a)[k] \in Digits \cup {"-"}}

StartsWith(s, prefix) ==
    Len(s) >= Len(prefix) /\ SubSeq(s, 1, Len(prefix)) = prefix

\* The text before the first ':' and the text between the first and the
\* second ':' (empty when there is no ':').
Colons == {k \in 1..Len(track_select) : track_select[k] = ":"}
FirstColon == CHOOSE k \in Colons : \A m \in Colons : k <= m
SecondColon == CHOOSE k \in Colons \ {FirstColon} :
                   \A m \in Colons \ {FirstColon} : k <= m
OffsetSegment ==
    IF Colons = {} THEN track_select
    ELSE SubSeq(track_select, 1, FirstColon - 1)
LimitSegment ==
    IF Colons = {} THEN <<>>
    ELSE IF Colons = {FirstColon}
    THEN SubSeq(track_select, FirstColon + 1, Len(track_select))
    ELSE SubSeq(track_select, FirstColon + 1, SecondColon - 1)

\* A signed integer, surrounding blanks allowed: blanks, an optional sign,
\* one or more digits, blanks.
IsSignedInteger(seg) ==
    \E i, j \in 1..Len(seg) :
        /\ i <= j
        /\ \A k \in 1..Len(seg) : (k < i \/ k > j) => seg[k] = " "
        /\ seg[j] \in {"0", "1", "2"}
        /\ seg[i] \in {"0", "1", "2", "-", "+"}
        /\ \A k \in (i + 1)..j : seg[k] \in {"0", "1", "2"}

Parsed == pc = "parsed"
RangeIs(a, b) == track_range = [start |-> a, end |-> b]

\* C6: "a:b" parses to {offset = a, limit = b}; "a:" and "a" give an absent
\* limit, ":b" an absent offset, the empty string two absent bounds; a
\* non-empty bound segment that is not a signed integer is a parse error.
C6_ParseTrackRanges ==
    pc # "main" =>
        /\ \A a \in SelectorInts :
              /\ StartsWith(track_select, Dec(a) \o <<":">>)
                    => \A b \in SelectorInts :
                          track_select = Dec(a) \o <<":">> \o Dec(b)
                              => Parsed /\ RangeIs(Some(a), Some(b))
              /\ (track_select = Dec(a) \/ track_select = Dec(a) \o <<":">>)
                    => Parsed /\ RangeIs(Some(a), None)
              /\ track_select = <<":">> \o Dec(a)
                    => Parsed /\ RangeIs(None, Some(a))
        /\ track_select = <<>> => Parsed /\ RangeIs(None, None)
        /\ (Parsed /\ OffsetSegment = <<>>) => ~track_range.start.some
        /\ (Parsed /\ LimitSegment = <<>>) => ~track_range.end.some
        /\ (OffsetSegment # <<>> /\ ~IsSignedInteger(OffsetSegment)) => pc = "panic"
        /\ (LimitSegment # <<>> /\ ~IsSignedInteger(LimitSegment)) => pc = "panic"

C6_Witness ==
    /\ Parsed
    /\ track_select = <<"-", "1", ":", "2">>
    /\ RangeIs(Some(0 - 1), Some(2))

-----------------------------------------------------------------------------
(* Properties of the preprocessing cache (SpecCache) *)

\* C10: when the first call returned, SOX wrote every output it was run for
\* and no cache file was removed, a second call with the same tracks and pan
\* runs SOX zero times and returns the same list in the same order.
C10_CacheIdempotent ==
    (call = 2 /\ env_ok)
        => /\ sox_runs = 0
           /\ pc # "panic"
           /\ pc = "preprocessed" => output_files = first_call.output_files

C10_Witness ==
    /\ call = 2
    /\ env_ok
    /\ pc = "preprocessed"
    /\ first_call.sox_runs = 2
    /\ sox_runs = 0
    /\ Len(output_files) = 3
    /\ output_files = first_call.output_files

-----------------------------------------------------------------------------
(* Properties of a run (Spec) *)

TrackCount == Len(output_files)
Did(effect) == effect \in io

\* A panic ends the run: no step is taken from it.
PanicIsFinal == [][pc # "panic"]_vars

\* C11: playback is attempted only when every selected track has a processed
\* path; a SOX run that fails or cannot be launched aborts the run at that
\* track: no later track is processed, no device chosen, no track played.
C11_State ==
    /\ Did("pipe_audio")
          => /\ call = 1 /\ idx = Len(song_paths)
             /\ Len(output_files) = Len(song_paths)
             /\ Len(cache_log) = Len(song_paths)
             /\ \A i \in 1..Len(song_paths) :
                   /\ cache_log[i].src = song_paths[i]
                   /\ cache_log[i].out = output_files[i]
    /\ fatal = "sox"
          => /\ pc = "panic"
             /\ cache_log[Len(cache_log)].kind = "sox"
             /\ cache_log[Len(cache_log)].src = song_paths[idx + 1]
             /\ Len(cache_log) = idx + 1
             /\ Len(output_files) = idx
             /\ ~Did("output_devices") /\ ~Did("stdin")
             /\ ~output_device.some
             /\ ~Did("pipe_audio") /\ started = <<>> /\ played = <<>>
C11_PreprocessBeforePlayback == []C11_State /\ PanicIsFinal

C11_Witness ==
    /\ fatal = "sox"
    /\ Len(song_paths) = 3
    /\ idx = 1
    /\ Len(cache_log) = 2

\* C12: tracks play one at a time in list order, the next one only when the
\* previous one has ended; a run without failure plays every track exactly
\* once and then is done; a failure of pipe_audio on track i ends the run
\* with no later track played.
C12_State ==
    /\ \A k \in 1..Len(started) :
          started[k].track = k /\ started[k].path = output_files[k]
    /\ played = [k \in 1..Len(played) |-> k]
    /\ Len(started) = IF pc = "playing" THEN Len(played) + 1 ELSE Len(played)
    /\ pc = "playing" => play_idx = Len(started)
    /\ pc = "done" => Len(played) = TrackCount
    /\ fatal = "pipe_audio"
          => /\ pc = "panic"
             /\ Len(started) = play_idx - 1
             /\ Len(played) = play_idx - 1
C12_PlaysInOrder == []C12_State /\ PanicIsFinal

C12_Witness ==
    /\ pc = "done"
    /\ TrackCount = 3
    /\ played = <<1, 2, 3>>

\* C13: with a pause greater than zero the sequencer pauses only between
\* tracks: a pause is followed by a next track, and N tracks have N - 1 pauses.
C13_PausesOnlyBetweenTracks ==
    /\ pc = "pausing" => play_idx < TrackCount
    /\ (pc = "done" /\ pause > 0 /\ TrackCount >= 1)
          => Len(pauses) = TrackCount - 1

\* C14: a malformed bound of the range selector ends the run in
\* parse_track_ranges before any I/O: nothing is read, run, created, asked
\* or played.
MalformedSelector ==
    \/ OffsetSegment # <<>> /\ ~IsSignedInteger(OffsetSegment)
    \/ LimitSegment # <<>> /\ ~IsSignedInteger(LimitSegment)
C14_State ==
    /\ MalformedSelector => pc \in {"main", "panic"}
    /\ (MalformedSelector /\ pc = "panic") => fatal = "parse_track_ranges"
    /\ (MalformedSelector \/ fatal = "parse_track_ranges")
          => /\ io = {}
             /\ song_paths = <<>> /\ diags = <<>>
             /\ call = 0 /\ sox_runs = 0 /\ cache_log = <<>>
             /\ cache_files = cache_start
             /\ stdin_reads = 0 /\ ~output_device.some
             /\ started = <<>> /\ cleanup = "none"
C14_ParseErrorBeforeIO == []C14_State /\ PanicIsFinal

C14_Witness ==
    /\ fatal = "parse_track_ranges"
    /\ pc = "panic"
    /\ track_select = <<"x">>
    /\ album_path.meta = "dir"
    /\ Len(dir_entries) = 2

\* C15: SOX is run for a track only when its output path does not exist at
\* that moment, so no cache file is overwritten; while nothing outside the
\* program removes a file and SOX writes its outputs, it is run at most once
\* per output path and never for a path that was a cache hit or was produced
\* earlier in the run.
C15_NeverOverwritten ==
    /\ \A k \in 1..Len(cache_log) :
          cache_log[k].kind = "sox" => ~cache_log[k].existed
    /\ env_ok =>
          \A k \in 1..Len(cache_log) :
             cache_log[k].kind = "sox"
                => /\ cache_log[k].out \notin cache_start
                   /\ \A j \in 1..(k - 1) : cache_log[j].out # cache_log[k].out

C15_Witness ==
    /\ env_ok
    /\ pc = "preprocessed"
    /\ Len(cache_log) = 3
    /\ cache_log[1].kind = "sox"
    /\ cache_log[2].kind = "hit"
    /\ cache_log[2].out = cache_log[1].out
    /\ cache_log[3].kind = "sox"

\* C16: starting from an empty cache, for pairwise distinct source paths the
\* i-th processed path is a file SOX produced from the i-th source, so two
\* distinct sources never share a processed file.
C16_OneProcessedFilePerSource ==
    (/\ pc = "preprocessed"
     /\ env_ok
     /\ cache_start = {}
     /\ \A i, j \in 1..Len(song_paths) : i # j => song_paths[i] # song_paths[j])
        => /\ Len(output_files) = Len(song_paths)
           /\ \A i \in 1..Len(song_paths) :
                 \E k \in 1..Len(cache_log) :
                    /\ cache_log[k].kind = "sox"
                    /\ cache_log[k].out = output_files[i]
                    /\ cache_log[k].src = song_paths[i]
           /\ \A i, j \in 1..Len(output_files) :
                 i # j => output_files[i] # output_files[j]

\* C17: a selector with a negative offset is a parse error: it never gets
\* past parse_track_ranges and no list is selected for it.
NegativeOffset ==
    /\ OffsetSegment # <<>>
    /\ IsSignedInteger(OffsetSegment)
    /\ ParseIsize(Trim(OffsetSegment)).val < 0
C17_NegativeOffsetRejected ==
    NegativeOffset
        => /\ pc \in {"main", "panic"}
           /\ pc = "panic" => fatal = "parse_track_ranges"

\* The last line read is the index of an enumerated device: blanks, an
\* optional '+', the decimal index, blanks.
Blanks(n) == [k \in 1..n |-> " "]
ValidChoice ==
    \E i \in 0..(devices - 1), a, b \in 0..Len(choice_input),
       sign \in {<<>>, <<"+">>} :
        choice_input = Blanks(a) \o sign \o Dec(i) \o Blanks(b)
ChosenIndex == CHOOSE i \in 0..(devices - 1) :
    \E a, b \in 0..Len(choice_input), sign \in {<<>>, <<"+">>} :
        choice_input = Blanks(a) \o sign \o Dec(i) \o Blanks(b)
InDeviceSelection == Did("output_devices") /\ ~Did("pipe_audio")

C18_Selection ==
    /\ output_device.some => output_device.val < devices /\ stdin_reads > 0
    /\ pc = "device_selected"
          => /\ output_device.some
             /\ ValidChoice
             /\ output_device.val = ChosenIndex
    /\ (pc = "choose" /\ stdin_reads > 0)
          => ~ValidChoice /\ ~output_device.some
    /\ (stdin_reads > 0 /\ ~output_device.some /\ pc # "panic")
          => pc = "choose"
    /\ fatal = "stdin" => pc = "panic" /\ ~output_device.some
C18_RetryHasNoOtherEffect ==
    [][(pc = "choose" /\ pc' = "choose")
          => UNCHANGED <<track_select, track_range, selectVars, cacheVars,
                         argVars, devices, output_device, play_idx, started,
                         played, pauses, cleanup, fatal, cache_log>>]_vars

\* C18 as stated: only in-range indices are returned, every other input leads
\* to another read, and the selection is fatal only on an error reading stdin.
C18_OnlyStdinErrorIsFatal ==
    /\ C18_Selection
    /\ (InDeviceSelection /\ pc = "panic") => fatal = "stdin"

\* C18 amended: as stated, except that the selection is fatal on an error
\* reading stdin or on a failure of the audio host (enumerating the devices,
\* or fetching the chosen index from the second enumeration).
C18_State ==
    /\ C18_Selection
    /\ (InDeviceSelection /\ pc = "panic") => fatal \in {"stdin", "cpal"}
    /\ (fatal = "cpal" /\ stdin_reads > 0) => ValidChoice
C18_DeviceSelection == []C18_State /\ C18_RetryHasNoOtherEffect

C18_Witness ==
    /\ pc = "device_selected"
    /\ devices = 2
    /\ stdin_reads = 2
    /\ choice_input = <<" ", "1">>
    /\ output_device = Some(1)

\* C19: the temp directory is removed only after the last track has been
\* played, and a failed removal is not fatal: the run is done either way.
C19_State ==
    /\ cleanup # "none"
          => /\ pc = "done"
             /\ play_idx = TrackCount
             /\ Len(played) = TrackCount
             /\ Did("remove_dir_all")
    /\ pc = "done" => cleanup \in {"removed", "failed"}
    /\ cleanup = "removed" => cache_files = {} /\ cache_dirs = {}
    /\ (Did("remove_dir_all") \/ pc = "done") => cleanup # "none"
C19_CleanupAfterLastTrack ==
    /\ []C19_State
    /\ [][(cleanup' # cleanup \/ Did("remove_dir_all")' # Did("remove_dir_all"))
             => (pc' = "done" /\ cleanup = "none")]_vars

C19_Witness ==
    /\ pc = "done"
    /\ cleanup = "failed"
    /\ TrackCount = 2
    /\ played = <<1, 2>>
    /\ cache_files # {}

\* C20 as stated: playback goes through the spatial output whenever the pan
\* is not negligible (every non-zero pan of the model is) and through the
\* plain sink otherwise.
C20_PanSelectsSink ==
    \A k \in 1..Len(started) :
        started[k].sink = IF stereo_pan # 0 THEN "spatial" ELSE "plain"

\* C20 amended: the playback step is given the device and the track path
\* only and plays through the plain sink whatever the pan is.
C20_PlainSinkAlways ==
    \A k \in 1..Len(started) :
        /\ started[k].sink = "plain"
        /\ started[k].path = output_files[k]

C20_Witness ==
    /\ stereo_pan = 0 - 254
    /\ Len(started) = 2
    /\ started[2].sink = "plain"
    /\ pc = "playing"

====
